---- MODULE Spec2Model ----
(***************************************************************************)
(* A model of the response cache, the rate limiter, the Zillow API client  *)
(* and the ARV engine of re_agent (src/re_agent/*.py, src/find_props.py).  *)
(***************************************************************************)
EXTENDS Integers, Sequences, FiniteSets, TLC

VARIABLES
    now,          \* int(time.time()): seconds since the epoch
    raw,          \* table raw: rows (property_id, endpoint, payload_json, ts)
    llm_cache,    \* table llm_cache: rows (prompt_hash, response_json, ts)
    rate_limits,  \* table rate_limits: rows (day, count)
    daily_limit,  \* the configured daily quota every caller passes
    cfg,          \* cfg.cache_config: api_cache_enabled, cache_ttl_hours
    granted,      \* history: per day, how many calls returned True
    last,         \* the last completed call: its name, arguments and result
    written,      \* history: per (endpoint, key), the latest call of set_cached since the last clear
    rl_pc,        \* per concurrent caller: position in rate_limit_check_and_increment
    rl_local,     \* per concurrent caller: the locals day, current
    calls,        \* concurrent callers: calls started so far
    subject_dict, \* the subject handed to estimate_arv_and_profit
    comps_dict,   \* the comps payload handed to estimate_arv_and_profit
    rehab_budget, \* cfg.profit_config.rehab_budget
    run,          \* one run of find_props.main: where its loops stand, the rows written
    fetchers      \* per concurrent caller of get_property_details: position, locals

\* The state of the concurrent callers
callerVars == <<rl_pc, rl_local, calls>>

\* The inputs of the ARV engine
arvVars == <<subject_dict, comps_dict, rehab_budget>>

vars == <<now, raw, llm_cache, rate_limits, daily_limit, cfg, granted, last, written,
          callerVars, arvVars, run, fetchers>>

----------------------------------------------------------------------------
(* Bounds of the model *)

MaxHour == 1       \* the cache's clock reaches the hours 0..MaxHour (and one second past hour 1)
MaxDay == 2        \* the rate limiter's clock reaches the days 0..MaxDay
MaxLimit == 3      \* daily_limit ranges over 0..MaxLimit
MaxCalls == 4      \* concurrent specification: calls started in one run
PageCap == 2       \* cfg.filters.page_cap: pages searched per geo
MaxProps == 2      \* results on one search page

(* Program constants *)

SecsPerHour == 3600
SecsPerDay == 86400
DefaultLimit == 100
DefaultTtlHours == 24
CompsCount == 25
comp_window_months == 6
extend_window_if_insufficient == 12
min_comps == 3

----------------------------------------------------------------------------
(* Values *)

None == <<>>
Some(x) == <<x>>

\* The record of a completed call: name, arguments, result, and for a call of
\* the API client what it did on the way, in order.
Call(op, args, ret) == [op |-> op, args |-> args, ret |-> ret, events |-> <<>>]

\* The instants the clock visits while the cache is exercised: the whole hours
\* and one second past the first hour (ages below, at and above a one-hour TTL).
WholeHours == {h * SecsPerHour : h \in 0..MaxHour}
HourPoints == WholeHours \cup {SecsPerHour + 1}

\* The instants the clock visits while the rate limiter is exercised: the first
\* and the last second of each UTC day.
DayPoints == {d * SecsPerDay : d \in 0..MaxDay} \cup {d * SecsPerDay + (SecsPerDay - 1) : d \in 0..MaxDay}

Days == 0..MaxDay
Limits == 0..MaxLimit
TtlHours == {0, 1}

Endpoints == {"property", "comps"}
Zpids == {"z1"}

\* JSON documents handed to the cache: a list of records, each either
\* conforming to its schema (TRUE) or not (FALSE).
Payloads == {<<TRUE>>, <<FALSE, TRUE>>}

Prompts == {"p1"}
Systems == {"sys"}

Procs == {"c1", "c2"}

\* CacheConfig() as models.py declares it, its TTL apart (2400 hours there)
DefaultCacheConfig == [api_cache_enabled |-> FALSE, cache_ttl_hours |-> 1]

\* The configurations the API client runs under: cache off (the default), cache on
ClientConfigs == {[api_cache_enabled |-> b, cache_ttl_hours |-> 1] : b \in BOOLEAN}

\* ArvConfig.comp_radius_mi (0.75)
comp_radius_mi == "0.75"

Geos == {"Austin"}
Pages == {1}
\* The subject handed to get_property_comps (located: it has coordinates)
Subjects == {[zpid |-> "z1", located |-> TRUE, latitude |-> 30, longitude |-> 97]}

----------------------------------------------------------------------------
(* Python values of the ARV engine's dicts: None, a number, a string.  A     *)
(* number is the exact rational <<n, d>> (d > 0, lowest terms) of the float. *)

PyNone == [t |-> "none"]
Num(r) == [t |-> "num", r |-> r]
Str(s) == [t |-> "str", s |-> s]
Whole(k) == Num(<<k, 1>>)
\* What an expression comes to when evaluating it raises
PyError(exc) == [t |-> "error", exc |-> exc]

\* bool(x): None, 0 and "" are falsy
Truthy(x) ==
    CASE x.t = "none" -> FALSE
      [] x.t = "num" -> x.r[1] # 0
      [] x.t = "str" -> x.s # ""

\* Python's "a or b"
Or(a, b) == IF Truthy(a) THEN a ELSE b

\* dict.get(k): the value under k, None when the key is not there
Get(d, k) == IF k \in DOMAIN d THEN d[k] ELSE PyNone

RECURSIVE GCD(_, _)
GCD(a, b) == IF b = 0 THEN a ELSE GCD(b, a % b)
Abs(a) == IF a < 0 THEN -a ELSE a

\* Rationals in lowest terms with a positive denominator
Rat(n, d) ==
    LET g == GCD(Abs(n), Abs(d))
        sgn == IF d < 0 THEN -1 ELSE 1
    IN  <<(sgn * n) \div g, (sgn * d) \div g>>
RZero == <<0, 1>>
ROne == <<1, 1>>
RAdd(a, b) == Rat(a[1] * b[2] + b[1] * a[2], a[2] * b[2])
RNeg(a) == <<-a[1], a[2]>>
RSub(a, b) == RAdd(a, RNeg(b))
RMul(a, b) ==
    LET x == Rat(a[1], b[2])
        y == Rat(b[1], a[2])
    IN  <<x[1] * y[1], x[2] * y[2]>>
RDiv(a, b) == RMul(a, Rat(b[2], b[1]))
RLe(a, b) == a[1] * b[2] <= b[1] * a[2]
RLt(a, b) == a[1] * b[2] < b[1] * a[2]
RMax(a, b) == IF RLt(a, b) THEN b ELSE a
RMin(a, b) == IF RLt(b, a) THEN b ELSE a
\* int(x) of a float x >= 0
RFloor(a) == a[1] \div a[2]

RECURSIVE Pow10(_)
Pow10(k) == IF k = 0 THEN 1 ELSE 10 * Pow10(k - 1)

\* round(x, ndigits): the nearest multiple of 10^-ndigits, a tie going to the
\* even one
round(x, ndigits) ==
    LET scaled == RMul(x, <<Pow10(ndigits), 1>>)
        lo == scaled[1] \div scaled[2]
        twice == 2 * (scaled[1] - lo * scaled[2])
        q == IF twice < scaled[2] THEN lo
             ELSE IF twice > scaled[2] THEN lo + 1
             ELSE IF lo % 2 = 0 THEN lo ELSE lo + 1
    IN  Rat(q, Pow10(ndigits))

----------------------------------------------------------------------------
(* utils.py *)

\* A faulty safe_float: 0.0 stands in for a value that is not there
safe_float_zero_for_missing(x, default) ==
    IF x = PyNone \/ x = Str("") THEN Num(RZero)
    ELSE IF x.t = "num" THEN Num(x.r)
    ELSE PyError("ValueError")

\* float(x): a number keeps its value, a string is parsed, and one that is
\* no numeral raises ValueError.
float(x) ==
    CASE x.t = "num" -> Num(x.r)
      [] x.t = "str" /\ x.s = "1000" -> Whole(1000)
      [] x.t = "str" /\ x.s # "1000" -> PyError("ValueError")

\* safe_float: the default for None and "", else float(x)
safe_float(x, default) ==
    IF x = PyNone \/ x = Str("") THEN default ELSE float(x)

\* sorted(): insertion sort of a list of rationals
RECURSIVE Insert(_, _)
Insert(x, arr) ==
    IF arr = <<>> THEN <<x>>
    ELSE IF RLe(x, Head(arr)) THEN <<x>> \o arr
    ELSE <<Head(arr)>> \o Insert(x, Tail(arr))
RECURSIVE sorted(_)
sorted(values) ==
    IF values = <<>> THEN <<>> ELSE Insert(Head(values), sorted(Tail(values)))

RECURSIVE sum(_)
sum(values) == IF values = <<>> THEN RZero ELSE RAdd(Head(values), sum(Tail(values)))

\* median: None for no values, the middle one, or the mean of the middle two.
\* arr is 0-based in the source, 1-based here.
median(values) ==
    LET arr == sorted(values)
        n == Len(arr)
        mid == n \div 2
    IN  IF n = 0 THEN PyNone
        ELSE IF n % 2 = 1 THEN Num(arr[mid + 1])
        ELSE Num(RDiv(RAdd(arr[mid], arr[mid + 1]), <<2, 1>>))

\* iqr's percentile(p) over the sorted arr of n values
percentile(arr, n, p) ==
    LET k == RMul(<<n - 1, 1>>, p)
        f == RFloor(k)
        c == IF f + 1 < n - 1 THEN f + 1 ELSE n - 1
        d0 == RMul(arr[f + 1], RSub(<<c, 1>>, k))
        d1 == RMul(arr[c + 1], RSub(k, <<f, 1>>))
    IN  IF f = c THEN arr[f + 1] ELSE RAdd(d0, d1)

\* iqr: 0.0 below four values, else max(0.0, q3 - q1)
iqr(values) ==
    LET arr == sorted(values)
        n == Len(arr)
        q1 == percentile(arr, n, <<1, 4>>)
        q3 == percentile(arr, n, <<3, 4>>)
    IN  IF n < 4 THEN RZero ELSE RMax(RZero, RSub(q3, q1))

clamp01(x) == RMax(RZero, RMin(ROne, x))

----------------------------------------------------------------------------
(* cache.py helpers *)

\* json.dumps / json.loads: the text form of a document and its parse.
json_dumps(doc) == <<"json", doc>>
json_loads(text) == text[2]

\* sha256 of the canonical JSON of params (keys sorted): one digest per
\* parameter set, whatever the order the dict was built in.
cache_key_from_params(params) == <<"sha256", {<<k, params[k]>> : k \in DOMAIN params}>>

\* sha256 of f"{system}|||{prompt}"
prompt_hash_of(prompt, system) == <<"sha256", <<system, "|||", prompt>>>>

Keys == {cache_key_from_params([zpid |-> z]) : z \in Zpids}

\* datetime.now(utc).strftime("%Y-%m-%d"): the UTC calendar day of an instant
utc_day(t) == t \div SecsPerDay

\* A faulty write, INSERT OR IGNORE: the first row under a key stays
InsertOrIgnoreRaw(table, row) ==
    IF \E r \in table : r.property_id = row.property_id /\ r.endpoint = row.endpoint
    THEN table
    ELSE table \cup {row}

\* REPLACE INTO raw: PRIMARY KEY(property_id, endpoint)
ReplaceIntoRaw(table, row) ==
    {r \in table : ~(r.property_id = row.property_id /\ r.endpoint = row.endpoint)}
        \cup {row}

\* REPLACE INTO llm_cache: prompt_hash PRIMARY KEY
ReplaceIntoLlm(table, row) ==
    {r \in table : r.prompt_hash # row.prompt_hash} \cup {row}

\* A faulty write: the table is emptied before the row goes in
ReplaceWholeRateLimits(table, row) == {row}

\* REPLACE INTO rate_limits: day PRIMARY KEY
ReplaceIntoRateLimits(table, row) ==
    {r \in table : r.day # row.day} \cup {row}

\* A faulty SELECT: ts >= ? lets a row of age ttl through
SelectRawInclusive(table, key, endpoint, cutoff_ts) ==
    {r \in table : r.property_id = key /\ r.endpoint = endpoint /\ r.ts >= cutoff_ts}

\* SELECT payload_json FROM raw WHERE property_id=? AND endpoint=? AND ts > ?
SelectRaw(table, key, endpoint, cutoff_ts) ==
    {r \in table : r.property_id = key /\ r.endpoint = endpoint /\ r.ts > cutoff_ts}

\* SELECT response_json FROM llm_cache WHERE prompt_hash=? AND ts > ?
SelectLlm(table, hash, cutoff_ts) ==
    {r \in table : r.prompt_hash = hash /\ r.ts > cutoff_ts}

\* get_cached's result: the parsed payload of the fetched row, or None
get_cached_result(table, t, endpoint, key, ttl_hours) ==
    LET cutoff_ts == t - (ttl_hours * SecsPerHour)
        rows == SelectRaw(table, key, endpoint, cutoff_ts)
    IN  IF rows = {} THEN None
        ELSE Some(json_loads((CHOOSE r \in rows : TRUE).payload_json))

\* get_llm_cached's result
get_llm_cached_result(table, t, prompt, system, ttl_hours) ==
    LET cutoff_ts == t - (ttl_hours * SecsPerHour)
        rows == SelectLlm(table, prompt_hash_of(prompt, system), cutoff_ts)
    IN  IF rows = {} THEN None
        ELSE Some(json_loads((CHOOSE r \in rows : TRUE).response_json))

\* SELECT count FROM rate_limits WHERE day=?  ; current = row[0] if row else 0
CurrentCount(table, day) ==
    LET rows == {r \in table : r.day = day}
    IN  IF rows = {} THEN 0 ELSE (CHOOSE r \in rows : TRUE).count

----------------------------------------------------------------------------
(* Initial state: an empty cache.db at the epoch *)

InitWith(limits, cfgs, inputs) ==
    /\ now = 0
    /\ raw = {}
    /\ llm_cache = {}
    /\ rate_limits = {}
    /\ daily_limit \in limits
    /\ cfg \in cfgs
    /\ granted = [d \in Days |-> 0]
    /\ last = Call("init", <<>>, None)
    /\ rl_pc = [p \in Procs |-> "idle"]
    /\ rl_local = [p \in Procs |-> [day |-> 0, current |-> 0]]
    /\ written = [e \in Endpoints, k \in Keys |-> None]
    /\ calls = 0
    /\ \E i \in inputs :
           /\ subject_dict = i.subject
           /\ comps_dict = i.comps
           /\ rehab_budget = i.rehab_budget
    /\ run = [pc |-> "search", geo |-> 1, page |-> 1, props |-> <<>>, idx |-> 0,
              rows |-> <<>>, did |-> <<>>, error |-> None]
    /\ fetchers = [p \in Procs |-> [pc |-> "idle", payload |-> <<>>, stored |-> None,
                                      ret |-> None, calls |-> 0]]

\* Time passes between calls: the clock moves on to a later instant.
Tick(points) ==
    /\ \E t \in points : t > now /\ now' = t
    /\ last' = Call("tick", <<>>, None)
    /\ UNCHANGED <<raw, llm_cache, rate_limits, daily_limit, cfg, granted, written, callerVars, arvVars, run, fetchers>>

----------------------------------------------------------------------------
(* The response cache *)

get_cached(endpoint, key, ttl_hours) ==
    /\ last' = Call("get_cached", <<endpoint, key, ttl_hours>>, get_cached_result(raw, now, endpoint, key, ttl_hours))
    /\ UNCHANGED <<now, raw, llm_cache, rate_limits, daily_limit, cfg, granted, written, callerVars, arvVars, run, fetchers>>

set_cached(endpoint, key, payload) ==
    /\ raw' = ReplaceIntoRaw(raw, [property_id |-> key, endpoint |-> endpoint,
                                   payload_json |-> json_dumps(payload), ts |-> now])
    /\ written' = [written EXCEPT ![endpoint, key] = Some([payload |-> payload, ts |-> now])]
    /\ last' = Call("set_cached", <<endpoint, key, payload>>, None)
    /\ UNCHANGED <<now, llm_cache, rate_limits, daily_limit, cfg, granted, callerVars, arvVars, run, fetchers>>

get_llm_cached(prompt, system, ttl_hours) ==
    /\ last' = Call("get_llm_cached", <<prompt, system, ttl_hours>>, get_llm_cached_result(llm_cache, now, prompt, system, ttl_hours))
    /\ UNCHANGED <<now, raw, llm_cache, rate_limits, daily_limit, cfg, granted, written, callerVars, arvVars, run, fetchers>>

set_llm_cached(prompt, system, response) ==
    /\ llm_cache' = ReplaceIntoLlm(llm_cache,
                        [prompt_hash |-> prompt_hash_of(prompt, system),
                         response_json |-> json_dumps(response), ts |-> now])
    /\ last' = Call("set_llm_cached", <<prompt, system, response>>, None)
    /\ UNCHANGED <<now, raw, rate_limits, daily_limit, cfg, granted, written, callerVars, arvVars, run, fetchers>>

\* A faulty clear_all_cache: the rate_limits table is emptied as well
clear_all_cache_resetting_quota ==
    /\ raw' = {}
    /\ llm_cache' = {}
    /\ rate_limits' = {}
    /\ written' = [e \in Endpoints, k \in Keys |-> None]
    /\ last' = Call("clear_all_cache", <<>>, None)
    /\ UNCHANGED <<now, daily_limit, cfg, granted, callerVars, arvVars, run, fetchers>>

clear_all_cache ==
    /\ raw' = {}
    /\ llm_cache' = {}
    /\ written' = [e \in Endpoints, k \in Keys |-> None]
    /\ last' = Call("clear_all_cache", <<>>, None)
    /\ UNCHANGED <<now, rate_limits, daily_limit, cfg, granted, callerVars, arvVars, run, fetchers>>

clear_llm_cache ==
    /\ llm_cache' = {}
    /\ last' = Call("clear_llm_cache", <<>>, None)
    /\ UNCHANGED <<now, raw, rate_limits, daily_limit, cfg, granted, written, callerVars, arvVars, run, fetchers>>

\* A faulty clear_api_cache: DELETE FROM llm_cache as well
clear_api_cache_dropping_llm ==
    /\ raw' = {}
    /\ llm_cache' = {}
    /\ written' = [e \in Endpoints, k \in Keys |-> None]
    /\ last' = Call("clear_api_cache", <<>>, None)
    /\ UNCHANGED <<now, rate_limits, daily_limit, cfg, granted, callerVars, arvVars, run, fetchers>>

clear_api_cache ==
    /\ raw' = {}
    /\ written' = [e \in Endpoints, k \in Keys |-> None]
    /\ last' = Call("clear_api_cache", <<>>, None)
    /\ UNCHANGED <<now, llm_cache, rate_limits, daily_limit, cfg, granted, callerVars, arvVars, run, fetchers>>

----------------------------------------------------------------------------
(* The rate limiter *)

\* A faulty check: current > limit_per_day lets one call too many through
rate_limit_allowed_off_by_one(current, limit_per_day) == ~(current > limit_per_day)

\* The call's return value: False when current >= limit_per_day
rate_limit_allowed(current, limit_per_day) == ~(current >= limit_per_day)

\* A faulty call: the row is replaced by current + 1 whatever the check said
rate_limit_table_always_incremented(table, day, current, limit_per_day) ==
    {r \in table : r.day # day} \cup {[day |-> day, count |-> current + 1]}

\* The table after the call: untouched when the call returns False, else the
\* day's row replaced by new_val = current + 1.
rate_limit_table_after(table, day, current, limit_per_day) ==
    IF ~rate_limit_allowed(current, limit_per_day) THEN table
    ELSE ReplaceIntoRateLimits(table, [day |-> day, count |-> current + 1])

\* One whole call, run with no other caller in between.
rate_limit_check_and_increment(limit_per_day) ==
    LET day == utc_day(now)
        current == CurrentCount(rate_limits, day)
        ok == rate_limit_allowed(current, limit_per_day)
    IN  /\ rate_limits' = rate_limit_table_after(rate_limits, day, current, limit_per_day)
        /\ granted' = IF ok THEN [granted EXCEPT ![day] = @ + 1] ELSE granted
        /\ last' = Call("rate_limit_check_and_increment", <<limit_per_day, day, current>>, Some(ok))
        /\ UNCHANGED <<now, raw, llm_cache, daily_limit, cfg, written, callerVars, arvVars, run, fetchers>>


----------------------------------------------------------------------------
(* rate_limit_check_and_increment run by concurrent callers.  Each caller    *)
(* opens its own connection; the SELECT (lines 182-184) and the REPLACE with *)
(* its commit (lines 189-190) are two separate statements, so another        *)
(* caller's statements may run between them.                                 *)

\* Lines 179-184: compute day, SELECT the count, keep it in current.
RLSelect(p) ==
    /\ rl_pc[p] = "idle"
    /\ calls < MaxCalls
    /\ calls' = calls + 1
    /\ rl_local' = [rl_local EXCEPT ![p] =
                       [day |-> utc_day(now),
                        current |-> CurrentCount(rate_limits, utc_day(now))]]
    /\ rl_pc' = [rl_pc EXCEPT ![p] = "selected"]
    /\ UNCHANGED <<now, raw, llm_cache, rate_limits, daily_limit, cfg, granted, last, written, arvVars, run, fetchers>>

\* Lines 185-187: the quota is used up, return False.
RLDeny(p) ==
    /\ rl_pc[p] = "selected"
    /\ ~rate_limit_allowed(rl_local[p].current, daily_limit)
    /\ rl_pc' = [rl_pc EXCEPT ![p] = "idle"]
    /\ last' = Call("rate_limit_check_and_increment", <<daily_limit, rl_local[p].day, rl_local[p].current>>, Some(FALSE))
    /\ UNCHANGED <<now, raw, llm_cache, rate_limits, daily_limit, cfg, granted, written,
                   rl_local, calls, arvVars, run, fetchers>>

\* Lines 188-192: REPLACE the day's row by current + 1, commit, return True.
RLReplace(p) ==
    /\ rl_pc[p] = "selected"
    /\ rate_limit_allowed(rl_local[p].current, daily_limit)
    /\ rate_limits' = rate_limit_table_after(rate_limits, rl_local[p].day,
                                             rl_local[p].current, daily_limit)
    /\ granted' = [granted EXCEPT ![rl_local[p].day] = @ + 1]
    /\ rl_pc' = [rl_pc EXCEPT ![p] = "idle"]
    /\ last' = Call("rate_limit_check_and_increment", <<daily_limit, rl_local[p].day, rl_local[p].current>>, Some(TRUE))
    /\ UNCHANGED <<now, raw, llm_cache, daily_limit, cfg, written, rl_local, calls, arvVars, run, fetchers>>

----------------------------------------------------------------------------
(* The API client, api.py.  A call runs to its end before the next starts;   *)
(* what the upstream answers to each _get is an input of the call.           *)

\* What one _get (with its retries) comes to: the parsed JSON of a 2xx answer,
\* or the error raised once the attempts are used up.  A JSON document is
\* modelled by the list of records it carries.
UpstreamOk(doc) == [ok |-> TRUE, doc |-> doc]
UpstreamFailed == [ok |-> FALSE, doc |-> <<>>]
\* Answers carrying one record (a search page, a property): valid, invalid
RecordDocs == {<<TRUE>>, <<FALSE>>}
\* Answers carrying comparables: one valid, one invalid, min_comps valid ones
ListDocs == {<<TRUE>>, <<FALSE>>, <<TRUE, TRUE, TRUE>>}
RecordOutcomes == {UpstreamFailed} \cup {UpstreamOk(d) : d \in RecordDocs}
Outcomes == {UpstreamFailed} \cup {UpstreamOk(d) : d \in ListDocs}

\* The answers to a request the call makes only when `asked`: an answer never
\* asked for is not an input of the call.
AnswersIf(asked) == IF asked THEN Outcomes ELSE {UpstreamFailed}

\* Pydantic's model_validate: every record of the document fits its schema.
model_validate(doc) == \A i \in DOMAIN doc : doc[i]

\* What a call did, in order
Lookup(endpoint, key, hit) == <<"lookup", endpoint, key, hit>>
Upstream(path, params, ok) == <<"upstream", path, params, ok>>
Store(endpoint, key, doc) == <<"store", endpoint, key, doc>>
Invalid(what) == <<"invalid", what>>

\* How a call ends
Returned(doc) == <<"ok", doc>>
Raised(exc) == <<exc>>

\* The outcome of a client method: the raw table after it, what it did, how
\* it ended.
Outcome(table, events, ret) == [table |-> table, events |-> events, ret |-> ret]

\* ZillowClient._get_cached
client_get_cached(table, endpoint, params, cache_enabled, cache_ttl_hours) ==
    IF ~cache_enabled THEN None
    ELSE get_cached_result(table, now, endpoint, cache_key_from_params(params),
                           cache_ttl_hours)

\* The events of ZillowClient._get_cached: a lookup unless the cache is off
lookup_events(table, endpoint, params, cache_enabled, cache_ttl_hours) ==
    IF ~cache_enabled THEN <<>>
    ELSE <<Lookup(endpoint, cache_key_from_params(params),
                  client_get_cached(table, endpoint, params, cache_enabled,
                                    cache_ttl_hours) # None)>>

\* A faulty write: the row is added beside the one already under the key
client_store_cache_appending(table, endpoint, params, payload) ==
    table \cup {[property_id |-> cache_key_from_params(params),
                 endpoint |-> endpoint,
                 payload_json |-> json_dumps(payload), ts |-> now]}

\* ZillowClient._store_cache: set_cached(endpoint, cache_key_from_params(params), payload)
client_store_cache(table, endpoint, params, payload) ==
    ReplaceIntoRaw(table, [property_id |-> cache_key_from_params(params),
                           endpoint |-> endpoint,
                           payload_json |-> json_dumps(payload), ts |-> now])

\* "Store in cache only if enabled", then validate and return or raise
\* DataValidationError (search_properties 85-95, get_property_details 124-136,
\* get_property_comps 236-246).
store_then_validate(table, events, endpoint, params, payload, store) ==
    LET t1 == IF store THEN client_store_cache(table, endpoint, params, payload)
              ELSE table
        e1 == IF store
              THEN events \o <<Store(endpoint, cache_key_from_params(params), payload)>>
              ELSE events
    IN  IF model_validate(payload) THEN Outcome(t1, e1, Returned(payload))
        ELSE Outcome(t1, e1 \o <<Invalid(endpoint)>>, Raised("DataValidationError"))

\* validate_cached with a request sent upstream although the lookup hit
validate_cached_after_upstream(table, events, endpoint, cached) ==
    IF model_validate(cached[1])
    THEN Outcome(table, events \o <<Upstream(endpoint, <<>>, TRUE)>>, Returned(cached[1]))
    ELSE Outcome(table, events \o <<Upstream(endpoint, <<>>, TRUE), Invalid(endpoint)>>,
                 Raised("DataValidationError"))

\* "if cached is not None": validate the cached payload and return or raise
validate_cached(table, events, endpoint, cached) ==
    IF model_validate(cached[1]) THEN Outcome(table, events, Returned(cached[1]))
    ELSE Outcome(table, events \o <<Invalid(endpoint)>>, Raised("DataValidationError"))

\* _params_to_dict(_params_from_filters(geo, page, cfg)) under Filters' defaults
search_params(geo, page) ==
    [location |-> geo, page |-> page, status_type |-> "ForSale",
     home_type |-> "SingleFamily"]

\* ZillowClient.search_properties
search_properties_outcome(table, geo, page, o) ==
    LET endpoint == "propertyExtendedSearch"
        params_dict == search_params(geo, page)
        cached == client_get_cached(table, endpoint, params_dict,
                                    cfg.api_cache_enabled, cfg.cache_ttl_hours)
        e0 == lookup_events(table, endpoint, params_dict,
                            cfg.api_cache_enabled, cfg.cache_ttl_hours)
        e1 == e0 \o <<Upstream("/propertyExtendedSearch", params_dict, o.ok)>>
    IN  IF cached # None THEN validate_cached(table, e0, endpoint, cached)
        ELSE IF ~o.ok THEN Outcome(table, e1, Raised("UpstreamError"))
        ELSE store_then_validate(table, e1, endpoint, params_dict, o.doc,
                                 cfg.api_cache_enabled)

\* ZillowClient.get_property_details; has_cfg: whether a cfg was passed
get_property_details_outcome(table, zpid, has_cfg, o) ==
    LET endpoint == "property"
        params == [zpid |-> zpid]
        enabled == IF has_cfg THEN cfg.api_cache_enabled ELSE TRUE
        ttl == IF has_cfg THEN cfg.cache_ttl_hours ELSE DefaultTtlHours
        cached == client_get_cached(table, endpoint, params, enabled, ttl)
        e0 == lookup_events(table, endpoint, params, enabled, ttl)
        e1 == e0 \o <<Upstream("/property", params, o.ok)>>
    IN  IF cached # None THEN validate_cached(table, e0, endpoint, cached)
        ELSE IF ~o.ok THEN Outcome(table, e1, Raised("UpstreamError"))
        ELSE store_then_validate(table, e1, endpoint, params, o.doc, enabled)

\* The fallback's parameters with "Clean None" applied: a subject without
\* coordinates contributes no latitude and no longitude.
fallback_params(subject, months) ==
    LET base == [status |-> "RecentlySold", radius |-> comp_radius_mi,
                 soldInLast |-> months, sort |-> "days", isRecentlySold |-> TRUE,
                 home_type |-> "SINGLE_FAMILY"]
    IN  IF subject.located
        THEN [k \in DOMAIN base \cup {"latitude", "longitude"} |->
                 IF k = "latitude" THEN subject.latitude
                 ELSE IF k = "longitude" THEN subject.longitude
                 ELSE base[k]]
        ELSE base

\* get_property_comps, lines 183-246: recently sold near the subject
comps_fallback_outcome(table, events, subject, o2, o3) ==
    LET endpoint == "propertyExtendedSearch_sold"
        months == comp_window_months
        params == fallback_params(subject, months)
        cached == client_get_cached(table, endpoint, params,
                                    cfg.api_cache_enabled, cfg.cache_ttl_hours)
        e0 == events \o lookup_events(table, endpoint, params,
                                      cfg.api_cache_enabled, cfg.cache_ttl_hours)
        e1 == e0 \o <<Upstream("/propertyExtendedSearch", params, o2.ok)>>
        comps == o2.doc
        ext_months == extend_window_if_insufficient
        extend == Len(comps) < min_comps /\ ext_months # 0 /\ ext_months > months
        params_ext == [params EXCEPT !.soldInLast = ext_months]
        e2 == IF extend
              THEN e1 \o <<Upstream("/propertyExtendedSearch", params_ext, o3.ok)>>
              ELSE e1
        adopt == extend /\ o3.ok /\ Len(o3.doc) > Len(comps)
    IN  IF cached # None THEN validate_cached(table, e0, endpoint, cached)
        ELSE IF ~o2.ok THEN Outcome(table, e1, Raised("UpstreamError"))
        ELSE store_then_validate(table, e2, endpoint,
                                 IF adopt THEN params_ext ELSE params,
                                 IF adopt THEN o3.doc ELSE comps,
                                 cfg.api_cache_enabled)

\* ZillowClient.get_property_comps.  The try of lines 156-178 sits inside
\* "except Exception" (line 180): whatever it raises, the DataValidationError
\* of line 178 included, is logged and the fallback runs.
get_property_comps_outcome(table, zpid, subject, o1, o2, o3) ==
    LET endpoint == "comps"
        params == [zpid |-> zpid, count |-> CompsCount]
        cached == client_get_cached(table, endpoint, params,
                                    cfg.api_cache_enabled, cfg.cache_ttl_hours)
        e0 == lookup_events(table, endpoint, params,
                            cfg.api_cache_enabled, cfg.cache_ttl_hours)
        e1 == e0 \o <<Upstream("/comps", params, o1.ok)>>
        primary == store_then_validate(table, e1, endpoint, params, o1.doc,
                                       cfg.api_cache_enabled)
    IN  IF cached # None THEN validate_cached(table, e0, endpoint, cached)
        ELSE IF ~o1.ok THEN comps_fallback_outcome(table, e1, subject, o2, o3)
        ELSE IF primary.ret[1] = "ok" THEN primary
        ELSE comps_fallback_outcome(primary.table, primary.events, subject, o2, o3)

\* A client method as a step: the table and the call record it leaves
ClientStep(op, args, outcome) ==
    /\ \E out \in {outcome} :
           /\ raw' = out.table
           /\ last' = [op |-> op, args |-> args, ret |-> out.ret, events |-> out.events]
    /\ UNCHANGED <<now, llm_cache, rate_limits, daily_limit, cfg, granted, written, callerVars, arvVars, run, fetchers>>

search_properties(geo, page, o) ==
    ClientStep("search_properties", <<geo, page>>,
               search_properties_outcome(raw, geo, page, o))

get_property_details(zpid, has_cfg, o) ==
    ClientStep("get_property_details", <<zpid, has_cfg>>,
               get_property_details_outcome(raw, zpid, has_cfg, o))

get_property_comps(zpid, subject, o1, o2, o3) ==
    ClientStep("get_property_comps", <<zpid, subject>>,
               get_property_comps_outcome(raw, zpid, subject, o1, o2, o3))

----------------------------------------------------------------------------
(* get_property_details(zpid, cfg) run by concurrent callers on one zpid.    *)
(* get_cached (line 104) and set_cached (line 126) each open their own       *)
(* connection and run one statement; the request upstream (line 118) lies    *)
(* between them, so another caller's statements may run in between.          *)

DetailsEndpoint == "property"
DetailsParams == [zpid |-> "z1"]
\* What upstream answers to the two callers: two valid documents, or an error
DetailsOutcomes == {UpstreamFailed, UpstreamOk(<<TRUE>>), UpstreamOk(<<TRUE, TRUE>>)}

\* Lines 104-116: the lookup; a hit ends the call
FetcherLookup(p) ==
    /\ fetchers[p].pc = "idle"
    /\ fetchers[p].calls < MaxCalls
    /\ LET cached == client_get_cached(raw, DetailsEndpoint, DetailsParams,
                                       cfg.api_cache_enabled, cfg.cache_ttl_hours)
       IN  fetchers' = [fetchers EXCEPT ![p] =
               IF cached # None
               THEN [@ EXCEPT !.calls = @ + 1,
                              !.ret = validate_cached(raw, <<>>, DetailsEndpoint, cached).ret]
               ELSE [@ EXCEPT !.calls = @ + 1, !.pc = "missed"]]
    /\ UNCHANGED <<now, raw, llm_cache, rate_limits, daily_limit, cfg, granted, last,
                   written, callerVars, arvVars, run>>

\* Line 118: the request upstream; an error ends the call
FetcherGet(p, o) ==
    /\ fetchers[p].pc = "missed"
    /\ fetchers' = [fetchers EXCEPT ![p] =
           IF o.ok THEN [@ EXCEPT !.pc = "fetched", !.payload = o.doc]
           ELSE [@ EXCEPT !.pc = "idle", !.ret = Raised("UpstreamError")]]
    /\ UNCHANGED <<now, raw, llm_cache, rate_limits, daily_limit, cfg, granted, last,
                   written, callerVars, arvVars, run>>

\* Lines 124-136: the write when the cache is enabled, then the validation
FetcherStore(p) ==
    /\ fetchers[p].pc = "fetched"
    /\ \E out \in {store_then_validate(raw, <<>>, DetailsEndpoint, DetailsParams,
                                        fetchers[p].payload, cfg.api_cache_enabled)} :
           /\ raw' = out.table
           /\ fetchers' = [fetchers EXCEPT ![p] =
                  [@ EXCEPT !.pc = "idle", !.ret = out.ret,
                            !.stored = IF cfg.api_cache_enabled
                                       THEN Some(fetchers[p].payload) ELSE @]]
    /\ written' = IF cfg.api_cache_enabled
                  THEN [written EXCEPT ![DetailsEndpoint, cache_key_from_params(DetailsParams)] =
                           Some([payload |-> fetchers[p].payload, ts |-> now])]
                  ELSE written
    /\ UNCHANGED <<now, llm_cache, rate_limits, daily_limit, cfg, granted, last,
                   callerVars, arvVars, run>>

----------------------------------------------------------------------------
(* The ARV engine, arv.py *)

\* ArvAdjustments and ProfitConfig defaults (models.py)
bed_step_pct == <<1, 25>>
bath_step_pct == <<1, 20>>
lot_size_cap_ratio == <<2, 1>>
closing_costs_pct == <<3, 100>>
selling_costs_pct == <<6, 100>>
misc_buffer_pct == <<2, 100>>
moe_pct_conservative == <<10, 100>>
moe_pct_optimistic == <<3, 100>>

\* str(x).lower() on the home types that occur
lower(s) ==
    CASE s = "SINGLE_FAMILY" -> "single_family"
      [] s = "Single_Family" -> "single_family"
      [] s = "CONDO" -> "condo"
      [] OTHER -> s

_extract_subject_fields(subject) ==
    [price |-> safe_float(Or(Get(subject, "price"), Get(subject, "listPrice")), PyNone),
     beds |-> safe_float(Or(Get(subject, "bedrooms"), Get(subject, "beds")), PyNone),
     baths |-> safe_float(Or(Get(subject, "bathrooms"), Get(subject, "baths")), PyNone),
     sqft |-> safe_float(Or(Get(subject, "livingArea"), Get(subject, "sqft")), PyNone),
     lot_sqft |-> safe_float(Or(Or(Get(subject, "lotAreaValue"), Get(subject, "lotSize")),
                                Get(subject, "lotArea")), PyNone),
     home_type |-> Or(Get(subject, "homeType"), Get(subject, "home_type")),
     year_built |-> safe_float(Get(subject, "yearBuilt"), PyNone)]

\* The fields _filter_and_ppsf reads from one comp
comp_fields(c) ==
    [price |-> safe_float(Or(Or(Get(c, "price"), Get(c, "soldPrice")),
                             Get(c, "sale_price")), PyNone),
     sqft |-> safe_float(Or(Or(Get(c, "livingArea"), Get(c, "sqft")),
                            Get(c, "living_area")), PyNone),
     lot_sqft |-> safe_float(Or(Or(Get(c, "lotAreaValue"), Get(c, "lotSize")),
                                Get(c, "lot_area")), PyNone),
     home_type |-> Or(Get(c, "homeType"), Get(c, "home_type"))]

\* Extracted fields one of which raised while it was evaluated
Failed(fields) == \E k \in DOMAIN fields : fields[k].t = "error"

\* _filter_and_ppsf raises: a safe_float of line 24 or of lines 32-34 met a
\* value float() rejects.  Lines 32-34 run for a comp before any of its checks.
_filter_and_ppsf_raises(comps, subject) ==
    \/ Failed(_extract_subject_fields(subject))
    \/ \E i \in DOMAIN comps : Failed(comp_fields(comps[i]))

\* comp_passes with a living-area window open at both ends
comp_passes_open_window(c, s) ==
    LET f == comp_fields(c)
        s_sqft == Or(s.sqft, Whole(0))
        s_lot == Or(s.lot_sqft, Whole(0))
    IN  /\ ~(~Truthy(f.price) \/ ~Truthy(f.sqft) \/ RLe(f.sqft.r, RZero))
        /\ ~(/\ Truthy(s.home_type)
             /\ Truthy(f.home_type)
             /\ lower(f.home_type.s) # lower(s.home_type.s))
        /\ ~(/\ Truthy(s_sqft)
             /\ ~(/\ RLt(RMul(<<4, 5>>, s_sqft.r), f.sqft.r)
                  /\ RLt(f.sqft.r, RMul(<<6, 5>>, s_sqft.r))))
        /\ ~(/\ Truthy(s_lot)
             /\ Truthy(f.lot_sqft)
             /\ RLt(RMul(lot_size_cap_ratio, s_lot.r), f.lot_sqft.r))

\* The body of _filter_and_ppsf's loop: TRUE when the comp reaches the append
comp_passes(c, s) ==
    LET f == comp_fields(c)
        s_sqft == Or(s.sqft, Whole(0))
        s_lot == Or(s.lot_sqft, Whole(0))
    IN  /\ ~(~Truthy(f.price) \/ ~Truthy(f.sqft) \/ RLe(f.sqft.r, RZero))
        /\ ~(/\ Truthy(s.home_type)
             /\ Truthy(f.home_type)
             /\ lower(f.home_type.s) # lower(s.home_type.s))
        /\ ~(/\ Truthy(s_sqft)
             /\ ~(/\ RLe(RMul(<<4, 5>>, s_sqft.r), f.sqft.r)
                  /\ RLe(f.sqft.r, RMul(<<6, 5>>, s_sqft.r))))
        /\ ~(/\ Truthy(s_lot)
             /\ Truthy(f.lot_sqft)
             /\ RLt(RMul(lot_size_cap_ratio, s_lot.r), f.lot_sqft.r))

_filter_and_ppsf(comps, subject) ==
    LET s == _extract_subject_fields(subject)
        kept == SelectSeq(comps, LAMBDA c : comp_passes(c, s))
    IN  [i \in 1..Len(kept) |->
            RDiv(comp_fields(kept[i]).price.r, comp_fields(kept[i]).sqft.r)]

\* _confidence_from_ppsf with neither score clamped
_confidence_from_ppsf_unclamped(ppsf_vals, min_comps_) ==
    LET med == median(ppsf_vals)
        disp == RDiv(iqr(ppsf_vals), med.r)
        n == Len(ppsf_vals)
        floor_ == IF min_comps_ * 2 > 1 THEN min_comps_ * 2 ELSE 1
        n_score == Rat(n, floor_)
        spread_score == RDiv(ROne, RAdd(ROne, disp))
    IN  IF ppsf_vals = <<>> THEN RZero
        ELSE IF ~Truthy(med) \/ RLe(med.r, RZero) THEN RZero
        ELSE RAdd(RMul(<<1, 2>>, n_score), RMul(<<1, 2>>, spread_score))

_confidence_from_ppsf(ppsf_vals, min_comps_) ==
    LET med == median(ppsf_vals)
        disp == RDiv(iqr(ppsf_vals), med.r)
        n == Len(ppsf_vals)
        floor_ == IF min_comps_ * 2 > 1 THEN min_comps_ * 2 ELSE 1
        n_score == clamp01(Rat(n, floor_))
        spread_score == RDiv(ROne, RAdd(ROne, disp))
    IN  IF ppsf_vals = <<>> THEN RZero
        ELSE IF ~Truthy(med) \/ RLe(med.r, RZero) THEN RZero
        ELSE clamp01(RAdd(RMul(<<1, 2>>, n_score), RMul(<<1, 2>>, spread_score)))

\* comps_payload.get("comps") or comps_payload.get("properties") or []
comps_of(payload) ==
    IF "comps" \in DOMAIN payload /\ payload.comps # <<>> THEN payload.comps
    ELSE IF "properties" \in DOMAIN payload /\ payload.properties # <<>>
    THEN payload.properties
    ELSE <<>>

\* round(x, n) if x is not None else None
round_or_none(x, ndigits) == IF x = PyNone THEN PyNone ELSE Num(round(x.r, ndigits))

\* profit_scenarios taking a rehab budget of 0 for no budget
profit_scenarios_needing_truthy_budget(arv_estimate, list_price, budget) ==
    LET arv_conservative == RMul(arv_estimate, RSub(ROne, moe_pct_conservative))
        arv_median == arv_estimate
        arv_optimistic == RMul(arv_estimate, RSub(ROne, moe_pct_optimistic))
        closing_costs == RMul(closing_costs_pct, list_price)
        selling_costs == RMul(selling_costs_pct, arv_median)
        misc_buffer == RMul(misc_buffer_pct, arv_median)
        total_costs == RAdd(RAdd(RAdd(RAdd(list_price, budget.r), closing_costs),
                                 selling_costs), misc_buffer)
    IN  IF ~Truthy(budget)
        THEN [conservative |-> PyNone, median |-> PyNone, optimistic |-> PyNone]
        ELSE [conservative |-> Num(RSub(arv_conservative, total_costs)),
              median |-> Num(RSub(arv_median, total_costs)),
              optimistic |-> Num(RSub(arv_optimistic, total_costs))]

\* profit_scenarios with the selling costs taken on the list price
profit_scenarios_selling_on_list_price(arv_estimate, list_price, budget) ==
    LET arv_conservative == RMul(arv_estimate, RSub(ROne, moe_pct_conservative))
        arv_median == arv_estimate
        arv_optimistic == RMul(arv_estimate, RSub(ROne, moe_pct_optimistic))
        closing_costs == RMul(closing_costs_pct, list_price)
        selling_costs == RMul(selling_costs_pct, list_price)
        misc_buffer == RMul(misc_buffer_pct, arv_median)
        total_costs == RAdd(RAdd(RAdd(RAdd(list_price, budget.r), closing_costs),
                                 selling_costs), misc_buffer)
    IN  IF budget = PyNone
        THEN [conservative |-> PyNone, median |-> PyNone, optimistic |-> PyNone]
        ELSE [conservative |-> Num(RSub(arv_conservative, total_costs)),
              median |-> Num(RSub(arv_median, total_costs)),
              optimistic |-> Num(RSub(arv_optimistic, total_costs))]

\* The profit scenarios of lines 146-163: three Nones without a rehab budget
profit_scenarios(arv_estimate, list_price, budget) ==
    LET arv_conservative == RMul(arv_estimate, RSub(ROne, moe_pct_conservative))
        arv_median == arv_estimate
        arv_optimistic == RMul(arv_estimate, RSub(ROne, moe_pct_optimistic))
        closing_costs == RMul(closing_costs_pct, list_price)
        selling_costs == RMul(selling_costs_pct, arv_median)
        misc_buffer == RMul(misc_buffer_pct, arv_median)
        total_costs == RAdd(RAdd(RAdd(RAdd(list_price, budget.r), closing_costs),
                                 selling_costs), misc_buffer)
    IN  IF budget = PyNone
        THEN [conservative |-> PyNone, median |-> PyNone, optimistic |-> PyNone]
        ELSE [conservative |-> Num(RSub(arv_conservative, total_costs)),
              median |-> Num(RSub(arv_median, total_costs)),
              optimistic |-> Num(RSub(arv_optimistic, total_costs))]

\* arv_estimate without its floor
adjusted_arv_unfloored(arv_base, adj_multiplier) == RMul(arv_base, adj_multiplier)

\* Line 138: arv_estimate = max(0.0, arv_base * adj_multiplier)
adjusted_arv(arv_base, adj_multiplier) == RMax(RZero, RMul(arv_base, adj_multiplier))

\* The deal ratio with 1 for an ARV of zero
deal_ratio_one_for_zero_arv(list_price, arv_estimate) ==
    IF RLt(RZero, arv_estimate) THEN RDiv(list_price, arv_estimate) ELSE ROne

\* Line 144: float(list_price) / float(arv_estimate) if arv_estimate > 0 else 0.0
deal_ratio(list_price, arv_estimate) ==
    IF RLt(RZero, arv_estimate) THEN RDiv(list_price, arv_estimate) ELSE RZero

\* The locals of estimate_arv_and_profit past its two fail-fast checks, as
\* they stand at line 165
arv_locals(s, subject, comps_payload, budget) ==
    LET comps == comps_of(comps_payload)
        ppsf_vals == _filter_and_ppsf(comps, subject)
        med_ppsf == median(ppsf_vals)
        arv_base == RMul(med_ppsf.r, s.sqft.r)
        s_beds == Or(s.beds, Whole(0))
        s_baths == Or(s.baths, Whole(0))
        valid_comps == SelectSeq(comps, LAMBDA c :
                           Truthy(Get(c, "price")) /\ Truthy(Get(c, "sqft")))
        comp_beds == [i \in 1..Len(valid_comps) |->
                         safe_float(Or(Get(valid_comps[i], "bedrooms"),
                                       Get(valid_comps[i], "beds")), Whole(0)).r]
        comp_baths == [i \in 1..Len(valid_comps) |->
                          safe_float(Or(Get(valid_comps[i], "bathrooms"),
                                        Get(valid_comps[i], "baths")), Whole(0)).r]
        mean_beds == RDiv(sum(comp_beds), <<Len(comp_beds), 1>>)
        mean_baths == RDiv(sum(comp_baths), <<Len(comp_baths), 1>>)
        bed_delta == IF valid_comps = <<>> THEN RZero
                     ELSE RMul(RSub(s_beds.r, mean_beds), bed_step_pct)
        bath_delta == IF valid_comps = <<>> THEN RZero
                      ELSE RMul(RSub(s_baths.r, mean_baths), bath_step_pct)
        adj_multiplier == RAdd(RAdd(ROne, bed_delta), bath_delta)
        arv_estimate == adjusted_arv(arv_base, adj_multiplier)
        conf == _confidence_from_ppsf(ppsf_vals, min_comps)
        list_to_arv_pct == deal_ratio(s.price.r, arv_estimate)
        profit == profit_scenarios(arv_estimate, s.price.r, budget)
    IN  [ppsf_vals |-> ppsf_vals, med_ppsf |-> med_ppsf, list_price |-> s.price.r,
         adj_multiplier |-> adj_multiplier, arv_estimate |-> arv_estimate,
         conf |-> conf, list_to_arv_pct |-> list_to_arv_pct, profit |-> profit]

\* The row of lines 166-175: the locals rounded
rounded_row(v) ==
    [arv_estimate |-> round(v.arv_estimate, 2),
     arv_ppsf |-> round(v.med_ppsf.r, 2),
     comp_count |-> Len(v.ppsf_vals),
     arv_confidence |-> round(v.conf, 3),
     list_to_arv_pct |-> round(v.list_to_arv_pct, 4),
     profit_conservative |-> round_or_none(v.profit.conservative, 2),
     profit_median |-> round_or_none(v.profit.median, 2),
     profit_optimistic |-> round_or_none(v.profit.optimistic, 2)]

\* arv_row without the check of lines 110-111: no sample yields a row of zeros
arv_row_without_no_comps_check(s, subject, comps_payload, budget) ==
    LET comps == comps_of(comps_payload)
    IN  IF _filter_and_ppsf_raises(comps, subject) THEN Raised("ValueError")
        ELSE IF _filter_and_ppsf(comps, subject) = <<>>
        THEN Returned(
            [arv_estimate |-> RZero, arv_ppsf |-> RZero, comp_count |-> 0,
             arv_confidence |-> RZero, list_to_arv_pct |-> RZero,
             profit_conservative |-> PyNone, profit_median |-> PyNone,
             profit_optimistic |-> PyNone])
        ELSE Returned(rounded_row(arv_locals(s, subject, comps_payload, budget)))

\* estimate_arv_and_profit past its two fail-fast checks (lines 105-177)
arv_row(s, subject, comps_payload, budget) ==
    LET comps == comps_of(comps_payload)
    IN  IF _filter_and_ppsf_raises(comps, subject) THEN Raised("ValueError")
        ELSE IF _filter_and_ppsf(comps, subject) = <<>> THEN Raised("NoCompsError")
        ELSE Returned(rounded_row(arv_locals(s, subject, comps_payload, budget)))

\* How estimate_arv_and_profit(subject, comps_payload, cfg) ends
estimate_arv_and_profit_result(subject, comps_payload, budget) ==
    LET s == _extract_subject_fields(subject)
        s_sqft == s.sqft
        list_price == s.price
    IN  IF Failed(s) THEN Raised("ValueError")
        ELSE IF ~Truthy(s_sqft) THEN Raised("MissingFieldError")
        ELSE IF list_price = PyNone THEN Raised("MissingFieldError")
        ELSE arv_row(s, subject, comps_payload, budget)

\* One valuation: estimate_arv_and_profit on the inputs at hand
estimate_arv_and_profit ==
    /\ last' = Call("estimate_arv_and_profit", <<subject_dict, comps_dict, rehab_budget>>,
                    estimate_arv_and_profit_result(subject_dict, comps_dict, rehab_budget))
    /\ UNCHANGED <<now, raw, llm_cache, rate_limits, daily_limit, cfg, granted, written,
                   callerVars, arvVars, run, fetchers>>

\* One call of _filter_and_ppsf(comps, subject, cfg) on the inputs at hand
filter_and_ppsf ==
    /\ last' = Call("_filter_and_ppsf", <<comps_of(comps_dict), subject_dict>>,
                    IF _filter_and_ppsf_raises(comps_of(comps_dict), subject_dict)
                    THEN Raised("ValueError")
                    ELSE Returned(_filter_and_ppsf(comps_of(comps_dict), subject_dict)))
    /\ UNCHANGED <<now, raw, llm_cache, rate_limits, daily_limit, cfg, granted, written,
                   callerVars, arvVars, run, fetchers>>

\* One call of _confidence_from_ppsf(ppsf_vals, min_comps)
confidence_from_ppsf(ppsf_vals, min_comps_) ==
    /\ last' = Call("_confidence_from_ppsf", <<ppsf_vals, min_comps_>>,
                    Returned(_confidence_from_ppsf(ppsf_vals, min_comps_)))
    /\ UNCHANGED <<now, raw, llm_cache, rate_limits, daily_limit, cfg, granted, written,
                   callerVars, arvVars, run, fetchers>>

\* One call of iqr(values)
iqr_call(values) ==
    /\ last' = Call("iqr", <<values>>, Returned(iqr(values)))
    /\ UNCHANGED <<now, raw, llm_cache, rate_limits, daily_limit, cfg, granted, written,
                   callerVars, arvVars, run, fetchers>>

\* The subjects valued: list price and living area absent (None), empty,
\* zero or given, under either of their spellings
SubjectDicts ==
    [price : {PyNone, Str(""), Whole(0), Whole(100000)},
     listPrice : {PyNone, Whole(90000)},
     livingArea : {PyNone, Str(""), Whole(0), Whole(1000)},
     sqft : {PyNone, Whole(1000)},
     bedrooms : {PyNone, Whole(3), Whole(4)},
     bathrooms : {Whole(2)},
     lotAreaValue : {Whole(5000)},
     homeType : {PyNone, Str("SINGLE_FAMILY")}]

\* A comp as CompRecord.model_dump() gives it
Comp(price, sqft, beds) ==
    [price |-> Whole(price), sqft |-> Whole(sqft), beds |-> Whole(beds),
     baths |-> Whole(2), lot_sqft |-> Whole(5000), home_type |-> Str("Single_Family")]

\* The comps payloads valued
CompsDicts ==
    {\* none; three in range; one out of range; four in range
     [comps |-> <<>>],
     [comps |-> <<Comp(100000, 1000, 3), Comp(110000, 1000, 3), Comp(120000, 1000, 3)>>],
     [comps |-> <<Comp(130000, 1300, 3)>>],
     [comps |-> <<Comp(100000, 1000, 3), Comp(99000, 900, 4), Comp(120000, 1000, 3),
                  Comp(156000, 1200, 3)>>],
     \* three in range and a larger house with more bedrooms
     [comps |-> <<Comp(100000, 1000, 3), Comp(110000, 1000, 3), Comp(120000, 1000, 3),
                  Comp(300000, 2000, 7)>>],
     \* living areas just below, at and just above 0.8 and 1.2 times 1000
     [comps |-> <<Comp(79900, 799, 3), Comp(88000, 800, 3), Comp(144000, 1200, 3),
                  Comp(157300, 1210, 3)>>],
     \* a negative price
     [comps |-> <<Comp(-100000, 1000, 3)>>],
     \* no price, no living area, a negative living area
     [comps |-> <<Comp(0, 1000, 3), Comp(100000, 0, 3), Comp(100000, -1000, 3)>>],
     \* a price that is no number, then a sound comp
     [comps |-> <<[Comp(100000, 1000, 3) EXCEPT !.price = Str("n/a")],
                  Comp(110000, 1000, 3)>>],
     \* another home type, no home type, the subject's home type
     [comps |-> <<[Comp(100000, 1000, 3) EXCEPT !.home_type = Str("CONDO")],
                  [Comp(120000, 1000, 3) EXCEPT !.home_type = PyNone],
                  Comp(110000, 1000, 3)>>],
     \* a large lot under lotAreaValue, a large lot under lot_sqft
     [comps |-> <<[lotAreaValue |-> Whole(12000)] @@ Comp(100000, 1000, 3),
                  [Comp(110000, 1000, 3) EXCEPT !.lot_sqft = Whole(50000)]>>],
     \* many more bedrooms than any subject
     [comps |-> <<Comp(100000, 1000, 40)>>]}

RehabBudgets == {PyNone, Whole(0), Whole(20000)}

\* The sample lists and the min_comps _confidence_from_ppsf is called with:
\* every list of up to MaxSamples samples, and some longer ones
MaxSamples == 3
PpsfSamples == {<<-100, 1>>, <<100, 1>>, <<150, 1>>}
PpsfLists ==
    UNION {[1..n -> PpsfSamples] : n \in 0..MaxSamples}
    \cup {<<<<100, 1>>, <<110, 1>>, <<120, 1>>, <<130, 1>>>>,
          <<<<-100, 1>>, <<-100, 1>>, <<100, 1>>, <<150, 1>>>>,
          <<<<1, 1>>, <<1, 1>>, <<1, 1>>, <<1000, 1>>>>,
          <<<<-5, 1>>, <<100, 1>>, <<110, 1>>, <<120, 1>>, <<1000, 1>>>>,
          <<<<100, 1>>, <<100, 1>>, <<100, 1>>, <<100, 1>>, <<100, 1>>, <<100, 1>>>>,
          <<<<99, 2>>, <<100, 1>>, <<100, 1>>, <<100, 1>>, <<100, 1>>, <<100, 1>>, <<301, 3>>>>}
MinCompsValues == {0, 1, 3}

\* The lists iqr is called with: the sample lists, and 1 to 8 in rising and
\* in falling order
IqrLists ==
    PpsfLists \cup {[i \in 1..8 |-> <<i, 1>>], [i \in 1..8 |-> <<9 - i, 1>>]}

\* The subjects that pass both fail-fast checks with a living area of 1000
ValuedSubjects ==
    {s \in SubjectDicts :
        /\ s.livingArea = Whole(1000) /\ s.sqft = PyNone
        /\ \/ s.price = Whole(100000) /\ s.listPrice = PyNone
           \/ s.price = PyNone /\ s.listPrice = Whole(90000)}

\* The payloads every subject is valued against: no comps, three usable
\* comps, a comp whose price is no number
CommonCompsDicts ==
    {c \in CompsDicts :
        \/ Len(c.comps) \in {0, 3} /\ \A i \in DOMAIN c.comps : c.comps[i].sqft = Whole(1000)
        \/ \E i \in DOMAIN c.comps : c.comps[i].price = Str("n/a")}

\* Every subject against the common payloads, with and without a budget; the
\* valued subjects against every payload and every budget
ArvInputs ==
    [subject : SubjectDicts, comps : CommonCompsDicts, rehab_budget : {PyNone, Whole(20000)}]
    \cup [subject : ValuedSubjects, comps : CompsDicts, rehab_budget : RehabBudgets]

\* The inputs held while the ARV engine is not exercised
NoArvInput ==
    [subject |-> [price |-> PyNone], comps |-> [comps |-> <<>>], rehab_budget |-> PyNone]

----------------------------------------------------------------------------
(* The batch pipeline, find_props.main (lines 180-224).  What the client and *)
(* the ARV engine answer for a page or a property is an input of the step.   *)

\* cfg.filters.geos
PipelineGeos == <<"Austin", "Dallas">>

\* search_res.results: per result, whether it carries a zpid
SearchPages == UNION {[1..n -> BOOLEAN] : n \in 0..MaxProps}
\* What search_properties raises
SearchErrors == {"UpstreamError", "DataValidationError"}
\* How search_properties ends: a page of results, or an error
SearchOk(page) == [ok |-> TRUE, results |-> page, exc |-> ""]
SearchRaised(exc) == [ok |-> FALSE, results |-> <<>>, exc |-> exc]
SearchOutcomes == {SearchOk(pg) : pg \in SearchPages} \cup {SearchRaised(e) : e \in SearchErrors}
\* What _process_single_property raises
ProcessErrors == {"DataValidationError", "NoCompsError", "MissingFieldError"}
\* How _process_single_property ends: a row, None (deal screen), an error
ProcessOutcomes == {"row", "filtered"} \cup ProcessErrors

\* The geo loop moves on (line 180), or the run ends with return 0 (line 220)
next_geo(r) ==
    IF r.geo < Len(PipelineGeos)
    THEN [r EXCEPT !.pc = "search", !.geo = @ + 1, !.page = 1, !.props = <<>>, !.idx = 0]
    ELSE [r EXCEPT !.pc = "done", !.props = <<>>]

\* The page loop moves on (line 184) once the page's results are used up
next_page(r) ==
    IF r.page < PageCap
    THEN [r EXCEPT !.pc = "search", !.page = @ + 1, !.props = <<>>, !.idx = 0]
    ELSE next_geo(r)

\* The property loop moves on (line 193)
next_property(r) ==
    LET r1 == [r EXCEPT !.props = Tail(@), !.idx = @ + 1]
    IN  IF r1.props = <<>> THEN next_page(r1) ELSE r1

\* A faulty handler: the error is logged and the loop goes on
after_process_swallowing(r, zpid, outcome) ==
    LET r1 == [r EXCEPT !.did = <<"process", zpid, outcome>>]
    IN  IF outcome = "row" THEN next_property([r1 EXCEPT !.rows = Append(@, zpid)])
        ELSE next_property(r1)

\* Lines 199-217 for one result with a zpid: the row is written, or nothing
\* is (deal screen), or the error is logged and raised again out of main
after_process(r, zpid, outcome) ==
    LET r1 == [r EXCEPT !.did = <<"process", zpid, outcome>>]
    IN  IF outcome = "row" THEN next_property([r1 EXCEPT !.rows = Append(@, zpid)])
        ELSE IF outcome = "filtered" THEN next_property(r1)
        ELSE [r1 EXCEPT !.pc = "failed", !.error = Some(outcome)]

\* Lines 185-190: one search_properties call; it raises, or it returns no
\* results (break), or the property loop starts
pipeline_search(o) ==
    /\ run.pc = "search"
    /\ LET r1 == [run EXCEPT !.did = <<"search", run.geo, run.page, o>>]
       IN  run' = IF ~o.ok
                  THEN [r1 EXCEPT !.pc = "failed", !.error = Some(o.exc)]
                  ELSE IF o.results = <<>> THEN next_geo(r1)
                  ELSE [r1 EXCEPT !.pc = "process", !.props = o.results, !.idx = 0]
    /\ UNCHANGED <<now, raw, llm_cache, rate_limits, daily_limit, cfg, granted, last,
                   written, callerVars, arvVars, fetchers>>

\* Lines 193-217: one turn of the property loop
pipeline_process(outcome) ==
    /\ run.pc = "process"
    /\ LET zpid == <<run.geo, run.page, run.idx + 1>>
       IN  run' = IF ~Head(run.props)
                  THEN next_property([run EXCEPT !.did = <<"skip", zpid>>])
                  ELSE after_process(run, zpid, outcome)
    /\ UNCHANGED <<now, raw, llm_cache, rate_limits, daily_limit, cfg, granted, last,
                   written, callerVars, arvVars, fetchers>>

----------------------------------------------------------------------------
(* Specifications *)

CacheNext ==
    \/ Tick(HourPoints)
    \/ \E e \in Endpoints, k \in Keys, t \in TtlHours : get_cached(e, k, t)
    \/ \E e \in Endpoints, k \in Keys, p \in Payloads : set_cached(e, k, p)
    \/ \E p \in Prompts, s \in Systems, t \in TtlHours : get_llm_cached(p, s, t)
    \/ \E p \in Prompts, s \in Systems, r \in Payloads : set_llm_cached(p, s, r)
    \/ clear_all_cache
    \/ clear_llm_cache
    \/ clear_api_cache

SpecCache == InitWith({DefaultLimit}, {DefaultCacheConfig}, {NoArvInput}) /\ [][CacheNext]_vars

RateLimitNext ==
    \/ Tick(DayPoints)
    \/ rate_limit_check_and_increment(daily_limit)
    \/ clear_all_cache
    \/ clear_llm_cache
    \/ clear_api_cache

SpecRateLimit == InitWith(Limits, {DefaultCacheConfig}, {NoArvInput}) /\ [][RateLimitNext]_vars

ClientNext ==
    \/ Tick(WholeHours)
    \/ rate_limit_check_and_increment(daily_limit)
    \/ \E g \in Geos, pg \in Pages, o \in RecordOutcomes : search_properties(g, pg, o)
    \/ \E sub \in Subjects, c \in BOOLEAN, o \in RecordOutcomes :
           get_property_details(sub.zpid, c, o)
    \/ \E sub \in Subjects, o1 \in Outcomes :
           \E o2 \in AnswersIf(~(o1.ok /\ model_validate(o1.doc))) :
               \E o3 \in AnswersIf(o2.ok /\ Len(o2.doc) < min_comps) :
                   get_property_comps(sub.zpid, sub, o1, o2, o3)

SpecClient == InitWith({1}, ClientConfigs, {NoArvInput}) /\ [][ClientNext]_vars

ArvNext ==
    \/ estimate_arv_and_profit
    \/ filter_and_ppsf

SpecArv == InitWith({DefaultLimit}, {DefaultCacheConfig}, ArvInputs) /\ [][ArvNext]_vars

ConfidenceNext ==
    \/ \E vals \in PpsfLists, m \in MinCompsValues : confidence_from_ppsf(vals, m)
    \/ \E vals \in IqrLists : iqr_call(vals)

SpecConfidence ==
    InitWith({DefaultLimit}, {DefaultCacheConfig}, {NoArvInput}) /\ [][ConfidenceNext]_vars

\* The cache and the limiter side by side in one cache.db
CacheQuotaNext ==
    \/ Tick(WholeHours)
    \/ rate_limit_check_and_increment(daily_limit)
    \/ \E e \in Endpoints, k \in Keys, t \in TtlHours : get_cached(e, k, t)
    \/ \E e \in Endpoints, k \in Keys, p \in Payloads : set_cached(e, k, p)
    \/ clear_all_cache
    \/ clear_llm_cache
    \/ clear_api_cache

SpecCacheQuota == InitWith(Limits, {DefaultCacheConfig}, {NoArvInput}) /\ [][CacheQuotaNext]_vars

PipelineNext ==
    \/ \E o \in SearchOutcomes : pipeline_search(o)
    \/ \E outcome \in ProcessOutcomes : pipeline_process(outcome)

SpecPipeline ==
    InitWith({DefaultLimit}, {DefaultCacheConfig}, {NoArvInput}) /\ [][PipelineNext]_vars

FetchersNext ==
    \/ Tick(WholeHours)
    \/ \E p \in Procs : FetcherLookup(p)
    \/ \E p \in Procs, o \in DetailsOutcomes : FetcherGet(p, o)
    \/ \E p \in Procs : FetcherStore(p)

SpecFetchers ==
    InitWith({DefaultLimit}, ClientConfigs, {NoArvInput}) /\ [][FetchersNext]_vars

RateLimitConcNext ==
    \/ Tick(DayPoints)
    \/ \E p \in Procs : RLSelect(p)
    \/ \E p \in Procs : RLDeny(p)
    \/ \E p \in Procs : RLReplace(p)

SpecRateLimitConc == InitWith(Limits, {DefaultCacheConfig}, {NoArvInput}) /\ [][RateLimitConcNext]_vars

----------------------------------------------------------------------------
(* Properties *)

Today == utc_day(now)
RowsOfDay(table, d) == {r \in table : r.day = d}
IsRateLimitCall(l) == l.op = "rate_limit_check_and_increment"

\* C1: with calls made one at a time and a fixed limit, the stored count of
\* every day is at most the limit, and the number of calls of that day that
\* returned True equals the stored count.
C1_CountBoundedAndEqualsGranted ==
    \A d \in Days :
        /\ CurrentCount(rate_limits, d) <= daily_limit
        /\ granted[d] = CurrentCount(rate_limits, d)

\* C1 witness: the quota of a day is used up by three granted calls and a
\* further call was refused.
C1_Witness ==
    /\ IsRateLimitCall(last)
    /\ last.ret = Some(FALSE)
    /\ daily_limit = MaxLimit
    /\ granted[Today] = daily_limit
    /\ CurrentCount(rate_limits, Today) = daily_limit

\* C2 (as claimed): with concurrent callers whose SELECT and REPLACE may
\* interleave, the calls of one day that return True never outnumber
\* daily_limit.
C2_GrantedNeverExceedsLimit ==
    \A d \in Days : granted[d] <= daily_limit

\* C3: a call that finds today's count >= daily_limit returns False and leaves
\* the table unchanged; after exactly daily_limit granted calls on one day the
\* next call returns False and the stored count stays daily_limit.
C3_ExhaustedQuotaRefusesAndKeepsStore ==
    [][IsRateLimitCall(last') =>
          /\ (CurrentCount(rate_limits, Today) >= daily_limit =>
                 /\ last'.ret = Some(FALSE)
                 /\ rate_limits' = rate_limits)
          /\ (granted[Today] = daily_limit =>
                 /\ last'.ret = Some(FALSE)
                 /\ CurrentCount(rate_limits', Today) = daily_limit)]_vars

\* C3 witness: a call refused after exactly daily_limit (> 0) granted calls,
\* the count still daily_limit.
C3_Witness ==
    /\ IsRateLimitCall(last)
    /\ last.ret = Some(FALSE)
    /\ daily_limit > 0
    /\ last.args[3] = daily_limit
    /\ granted[Today] = daily_limit
    /\ RowsOfDay(rate_limits, Today) = {[day |-> Today, count |-> daily_limit]}

\* C8: no step lowers the stored count of any day; a call on a day with no row
\* acts as on count 0; a call changes at most today's row.
C8_CountsNeverDecreaseOtherDaysKept ==
    [][/\ \A d \in Days : CurrentCount(rate_limits', d) >= CurrentCount(rate_limits, d)
       /\ IsRateLimitCall(last') =>
             /\ \A d \in Days \ {Today} :
                    RowsOfDay(rate_limits', d) = RowsOfDay(rate_limits, d)
             /\ RowsOfDay(rate_limits, Today) = {} =>
                    /\ last'.args[3] = 0
                    /\ last'.ret = Some(0 < daily_limit)
                    /\ RowsOfDay(rate_limits', Today) =
                           IF 0 < daily_limit THEN {[day |-> Today, count |-> 1]} ELSE {}]_vars

\* C8 witness: the first call of a new day has created that day's row with
\* count 1 while the row of the day before still holds its count.
C8_Witness ==
    /\ IsRateLimitCall(last)
    /\ last.ret = Some(TRUE)
    /\ Today >= 1
    /\ RowsOfDay(rate_limits, Today) = {[day |-> Today, count |-> 1]}
    /\ CurrentCount(rate_limits, Today - 1) >= 2

----------------------------------------------------------------------------
(* Properties of the response cache *)

RowsOf(table, endpoint, key) ==
    {r \in table : r.endpoint = endpoint /\ r.property_id = key}
IsGet(l) == l.op = "get_cached"
Age(r) == now - r.ts

\* C5 (as claimed): get_cached returns the stored payload iff an entry exists
\* whose age is <= ttl, the age equal to the ttl included; else it returns None.
C5_HitIffAgeAtMostTtl ==
    IsGet(last) =>
        LET fresh == {r \in RowsOf(raw, last.args[1], last.args[2]) :
                          Age(r) <= last.args[3] * SecsPerHour}
        IN  IF fresh = {} THEN last.ret = None
            ELSE \E r \in fresh : last.ret = Some(json_loads(r.payload_json))

\* C5 (amended): get_cached returns the stored payload iff an entry exists
\* whose age is strictly below the ttl; at an age equal to the ttl it returns
\* None.
C5_HitIffAgeBelowTtl ==
    IsGet(last) =>
        LET fresh == {r \in RowsOf(raw, last.args[1], last.args[2]) :
                          Age(r) < last.args[3] * SecsPerHour}
        IN  IF fresh = {} THEN last.ret = None
            ELSE \E r \in fresh : last.ret = Some(json_loads(r.payload_json))

\* C5 witness: a read of an entry whose age equals a one-hour ttl exactly
\* returned None.
C5_Witness ==
    /\ IsGet(last)
    /\ last.args[3] = 1
    /\ \E r \in RowsOf(raw, last.args[1], last.args[2]) : Age(r) = SecsPerHour
    /\ last.ret = None

\* C6: the raw table holds at most one row per (endpoint, key), carrying the
\* payload and the timestamp of the latest set_cached; a get_cached before the
\* ttl has elapsed since that write returns that payload, one at or after it
\* returns None.
C6_LastWriteWinsRoundTrip ==
    /\ \A e \in Endpoints, k \in Keys :
           LET rows == RowsOf(raw, e, k)
               w == written[e, k]
           IN  /\ Cardinality(rows) <= 1
               /\ w = None => rows = {}
               /\ w # None => \E r \in rows : /\ json_loads(r.payload_json) = w[1].payload
                                              /\ r.ts = w[1].ts
    /\ IsGet(last) =>
           LET w == written[last.args[1], last.args[2]]
           IN  /\ w = None => last.ret = None
               /\ w # None =>
                      IF now - w[1].ts < last.args[3] * SecsPerHour
                      THEN last.ret = Some(w[1].payload)
                      ELSE last.ret = None

\* C6 witness: an entry written at the epoch was overwritten an hour later
\* with another payload, and a read one second after that returned the second
\* payload while the other entries kept theirs.
C6_Witness ==
    /\ IsGet(last)
    /\ now = SecsPerHour + 1
    /\ written[last.args[1], last.args[2]] = Some([payload |-> <<FALSE, TRUE>>, ts |-> SecsPerHour])
    /\ last.ret = Some(<<FALSE, TRUE>>)
    /\ Cardinality(raw) = Cardinality(Endpoints \X Keys)
    /\ \E r \in raw : r.ts = 0 /\ json_loads(r.payload_json) = <<TRUE>>

\* C7: set_cached and clear_api_cache leave llm_cache unchanged, set_llm_cached
\* and clear_llm_cache leave raw unchanged, and a read returns None or a
\* payload held by its own table.
C7_NamespacesIndependent ==
    [][/\ last'.op \in {"set_cached", "clear_api_cache", "get_cached"} =>
              llm_cache' = llm_cache
       /\ last'.op \in {"set_llm_cached", "clear_llm_cache", "get_llm_cached"} =>
              raw' = raw
       /\ IsGet(last') =>
              last'.ret \in {None} \cup
                  {Some(json_loads(r.payload_json)) :
                       r \in RowsOf(raw, last'.args[1], last'.args[2])}
       /\ last'.op = "get_llm_cached" =>
              last'.ret \in {None} \cup
                  {Some(json_loads(r.response_json)) :
                       r \in {x \in llm_cache :
                                x.prompt_hash = prompt_hash_of(last'.args[1], last'.args[2])}}]_vars

\* C7 witness: after clear_api_cache the raw table is empty and the llm_cache
\* entry is still there.
C7_Witness ==
    /\ last.op = "clear_api_cache"
    /\ raw = {}
    /\ llm_cache # {}

----------------------------------------------------------------------------
(* Properties of the API client *)

IsClientCall(l) ==
    l.op \in {"search_properties", "get_property_details", "get_property_comps"}
EventsOfKind(l, kind) == {i \in DOMAIN l.events : l.events[i][1] = kind}

\* C4 (as claimed): every upstream request of a client call is paid for by a
\* check-and-increment that returned True during the call, and a call that
\* starts with the day's quota used up issues no upstream request.
C4_UpstreamOnlyAfterGrant ==
    [][IsClientCall(last') =>
          /\ Cardinality(EventsOfKind(last', "upstream")) <= granted'[Today] - granted[Today]
          /\ CurrentCount(rate_limits, Today) >= daily_limit =>
                 EventsOfKind(last', "upstream") = {}]_vars

\* C9 (as claimed): a payload that fails validation ends the call with
\* DataValidationError, and nothing is looked up or requested after it.
C9_ValidationFailureEndsCall ==
    IsClientCall(last) =>
        \A i \in EventsOfKind(last, "invalid") :
            /\ last.ret = Raised("DataValidationError")
            /\ \A j \in DOMAIN last.events :
                   j > i => last.events[j][1] \notin {"lookup", "upstream", "store"}

----------------------------------------------------------------------------
(* Properties of the ARV engine *)

IsArvCall(l) == l.op = "estimate_arv_and_profit"
\* A field is absent under both of its spellings: no value, or an empty one
Blank == {PyNone, Str("")}
AbsentIn(d, k1, k2) == Get(d, k1) \in Blank /\ Get(d, k2) \in Blank

\* C10: a subject whose square footage is absent, or whose list price is
\* absent, makes estimate_arv_and_profit raise MissingFieldError; no row is
\* returned.
C10_MissingSubjectFieldRaises ==
    (/\ IsArvCall(last)
     /\ \/ AbsentIn(last.args[1], "livingArea", "sqft")
        \/ AbsentIn(last.args[1], "price", "listPrice"))
        => last.ret = Raised("MissingFieldError")

\* C10 witness: a subject with its square footage given and no list price was
\* valued against three usable comps, and the call raised MissingFieldError.
C10_Witness ==
    /\ IsArvCall(last)
    /\ Get(last.args[1], "livingArea") = Whole(1000)
    /\ AbsentIn(last.args[1], "price", "listPrice")
    /\ ~_filter_and_ppsf_raises(comps_of(last.args[2]), last.args[1])
    /\ Len(_filter_and_ppsf(comps_of(last.args[2]), last.args[1])) = 3
    /\ last.ret = Raised("MissingFieldError")

\* A call ended with a row, and the row it ended with
IsReturned(l) == Len(l.ret) = 2 /\ l.ret[1] = "ok"
Row(l) == l.ret[2]

\* C11: when the filtered PPSF list is empty, estimate_arv_and_profit (past
\* its subject checks) raises NoCompsError; hence every row it returns has
\* comp_count >= 1.
C11_NoSampleRaisesNoComps ==
    IsArvCall(last) =>
        /\ (/\ last.ret # Raised("MissingFieldError")
            /\ ~_filter_and_ppsf_raises(comps_of(last.args[2]), last.args[1])
            /\ _filter_and_ppsf(comps_of(last.args[2]), last.args[1]) = <<>>)
               => last.ret = Raised("NoCompsError")
        /\ IsReturned(last) => Row(last).comp_count >= 1

\* C11 witness: comps were handed in, none of them passed the filter, and the
\* valuation raised NoCompsError.
C11_Witness ==
    /\ IsArvCall(last)
    /\ comps_of(last.args[2]) # <<>>
    /\ last.ret = Raised("NoCompsError")

IsFilterCall(l) == l.op = "_filter_and_ppsf"

\* The filter predicate as stated: positive price and living area, the
\* subject's home type when it declares one (a comp that declares none is
\* let through), living area within 0.8 to 1.2 times the subject's when that
\* is known, lot at most lot_size_cap_ratio times the subject's when that is
\* known (a comp that gives no lot is let through)
StatedFilterPredicate(c, subject) ==
    LET f == comp_fields(c)
        s == _extract_subject_fields(subject)
    IN  /\ f.price.t = "num" /\ RLt(RZero, f.price.r)
        /\ f.sqft.t = "num" /\ RLt(RZero, f.sqft.r)
        /\ (Truthy(s.home_type) /\ Truthy(f.home_type))
               => lower(f.home_type.s) = lower(s.home_type.s)
        /\ (s.sqft.t = "num" /\ Truthy(s.sqft))
               => /\ RLe(RMul(<<4, 5>>, s.sqft.r), f.sqft.r)
                  /\ RLe(f.sqft.r, RMul(<<6, 5>>, s.sqft.r))
        /\ (s.lot_sqft.t = "num" /\ Truthy(s.lot_sqft) /\ f.lot_sqft.t = "num")
               => RLe(f.lot_sqft.r, RMul(lot_size_cap_ratio, s.lot_sqft.r))

\* C12: every PPSF sample _filter_and_ppsf returns is the price per square
\* foot of a comp that satisfies the whole filter predicate, a positive price
\* included.
C12_SamplesFromCompsPassingPredicate ==
    (IsFilterCall(last) /\ IsReturned(last)) =>
        \A i \in DOMAIN Row(last) :
            \E j \in DOMAIN last.args[1] :
                /\ StatedFilterPredicate(last.args[1][j], last.args[2])
                /\ Row(last)[i] = RDiv(comp_fields(last.args[1][j]).price.r,
                                       comp_fields(last.args[1][j]).sqft.r)

\* The living area of a comp and of the subject, as the filter reads them
SqftOf(c) == comp_fields(c).sqft
SubjectSqft(subject) == _extract_subject_fields(subject).sqft
PpsfOf(c) == RDiv(comp_fields(c).price.r, comp_fields(c).sqft.r)
Range(seq) == {seq[i] : i \in DOMAIN seq}

\* A living area within 0.8 to 1.2 times the subject's, both ends included
InWindow(sqft, s_sqft) ==
    /\ RLe(RMul(<<4, 5>>, s_sqft), sqft)
    /\ RLe(sqft, RMul(<<6, 5>>, s_sqft))
\* A living area of exactly 0.8 or exactly 1.2 times the subject's
AtEdge(sqft, s_sqft) == sqft \in {RMul(<<4, 5>>, s_sqft), RMul(<<6, 5>>, s_sqft)}

\* C13: with the subject's living area known, the window is inclusive at both
\* ends: a comp at exactly 0.8 or 1.2 times the subject's living area that
\* meets the rest of the predicate yields a sample, and no more samples are
\* returned than there are comps within the window (a comp at 1.21 times
\* yields none).
C13_WindowInclusive ==
    (/\ IsFilterCall(last) /\ IsReturned(last)
     /\ Truthy(SubjectSqft(last.args[2]))) =>
        LET comps == last.args[1]
            s_sqft == SubjectSqft(last.args[2]).r
        IN  /\ \A j \in DOMAIN comps :
                   (/\ StatedFilterPredicate(comps[j], last.args[2])
                    /\ AtEdge(SqftOf(comps[j]).r, s_sqft))
                       => PpsfOf(comps[j]) \in Range(Row(last))
            /\ \A i \in DOMAIN Row(last) :
                   \E j \in DOMAIN comps :
                       /\ Truthy(SqftOf(comps[j]))
                       /\ InWindow(SqftOf(comps[j]).r, s_sqft)
                       /\ Truthy(comp_fields(comps[j]).price)
                       /\ Row(last)[i] = PpsfOf(comps[j])
            /\ Len(Row(last)) <=
                   Cardinality({j \in DOMAIN comps :
                                   /\ Truthy(SqftOf(comps[j]))
                                   /\ InWindow(SqftOf(comps[j]).r, s_sqft)})

\* C13 witness: against a subject of 1000 square feet, comps of 799, 800,
\* 1200 and 1210 square feet were filtered; the samples returned are those of
\* the comps of 800 and 1200 square feet.
C13_Witness ==
    /\ IsFilterCall(last) /\ IsReturned(last)
    /\ SubjectSqft(last.args[2]) = Whole(1000)
    /\ {SqftOf(last.args[1][j]) : j \in DOMAIN last.args[1]}
           = {Whole(799), Whole(800), Whole(1200), Whole(1210)}
    /\ Row(last) = <<<<110, 1>>, <<120, 1>>>>

\* C14: a comp whose price, living area or lot is present but is no number
\* never makes _filter_and_ppsf raise: the call returns its list of samples.
C14_MalformedCompNeverRaises ==
    IsFilterCall(last) => IsReturned(last)

IsConfidenceCall(l) == l.op = "_confidence_from_ppsf"

\* C15: _confidence_from_ppsf returns a value within [0, 1] for every sample
\* list and every min_comps, and exactly 0 when the list is empty or its
\* median is not positive.
C15_ConfidenceWithinUnitInterval ==
    IsConfidenceCall(last) =>
        /\ IsReturned(last)
        /\ RLe(RZero, Row(last)) /\ RLe(Row(last), ROne)
        /\ (\/ last.args[1] = <<>>
            \/ RLe(median(last.args[1]).r, RZero)) => Row(last) = RZero

\* C15 witness: a list of four samples with a median of 0 was scored 0.
C15_Witness ==
    /\ IsConfidenceCall(last)
    /\ Len(last.args[1]) = 4
    /\ median(last.args[1]) = Num(RZero)
    /\ Row(last) = RZero

\* The comps of a payload that _filter_and_ppsf keeps for the subject
KeptComps(comps_payload, subject) ==
    SelectSeq(comps_of(comps_payload),
              LAMBDA c : comp_passes(c, _extract_subject_fields(subject)))

\* C16: the bed/bath adjustment uses the mean beds and baths of the filtered
\* comps only, so a comp the filter rejected has no influence on
\* arv_estimate: the valuation against the kept comps alone gives the same
\* arv_estimate.
C16_RejectedCompHasNoInfluence ==
    (IsArvCall(last) /\ IsReturned(last)) =>
        LET kept_only == estimate_arv_and_profit_result(
                             last.args[1],
                             [comps |-> KeptComps(last.args[2], last.args[1])],
                             last.args[3])
        IN  Row(last).arv_estimate = kept_only[2].arv_estimate

\* The list price, and the bed/bath multiplier before the floor, of a valuation
ListPrice(l) == _extract_subject_fields(l.args[1]).price.r
Multiplier(l) ==
    arv_locals(_extract_subject_fields(l.args[1]), l.args[1], l.args[2],
               l.args[3]).adj_multiplier

\* C17: the arv_estimate of every returned row is >= 0, whatever the bed and
\* bath counts, a negative adjustment multiplier included.
C17_ArvEstimateNeverNegative ==
    (IsArvCall(last) /\ IsReturned(last)) => RLe(RZero, Row(last).arv_estimate)

\* C17 witness: a valuation whose multiplier 1 + bed_delta + bath_delta is
\* negative, over a positive median PPSF, returned a row with arv_estimate 0.
C17_Witness ==
    /\ IsArvCall(last) /\ IsReturned(last)
    /\ RLt(Multiplier(last), RZero)
    /\ RLt(RZero, Row(last).arv_ppsf)
    /\ Row(last).arv_estimate = RZero

\* C18: list_to_arv_pct is list_price / arv_estimate (to 4 places) when
\* arv_estimate > 0 and 0 when arv_estimate is 0; a valuation that reaches an
\* ARV of zero still returns its row.
C18_DealRatio ==
    (IsArvCall(last) /\ last.ret \notin {Raised("MissingFieldError"),
                                         Raised("NoCompsError"),
                                         Raised("ValueError")}) =>
        /\ IsReturned(last)
        /\ Row(last).list_to_arv_pct =
               IF RLt(RZero, Row(last).arv_estimate)
               THEN round(RDiv(ListPrice(last), Row(last).arv_estimate), 4)
               ELSE RZero

\* C18 witness: a subject listed at a positive price was valued at an ARV of
\* zero, and the row returned carries a deal ratio of 0.
C18_Witness ==
    /\ IsArvCall(last) /\ IsReturned(last)
    /\ RLt(RZero, ListPrice(last))
    /\ Row(last).arv_estimate = RZero
    /\ Row(last).list_to_arv_pct = RZero

ProfitFields(row) == {row.profit_conservative, row.profit_median, row.profit_optimistic}

\* C19: in every returned row the three profit fields are all null or all
\* numeric, and all null exactly when rehab_budget is unset.
C19_ProfitsAllOrNothing ==
    (IsArvCall(last) /\ IsReturned(last)) =>
        /\ \/ ProfitFields(Row(last)) = {PyNone}
           \/ \A x \in ProfitFields(Row(last)) : x.t = "num"
        /\ ProfitFields(Row(last)) = {PyNone} <=> last.args[3] = PyNone

\* C19 witness: with a rehab budget of 0 configured, the row returned carries
\* three numeric profits.
C19_Witness ==
    /\ IsArvCall(last) /\ IsReturned(last)
    /\ last.args[3] = Whole(0)
    /\ \A x \in ProfitFields(Row(last)) : x.t = "num"

\* total_costs as stated, from the row's arv_estimate
StatedTotalCosts(list_price, budget, arv) ==
    RAdd(RAdd(RAdd(RAdd(list_price, budget), RMul(closing_costs_pct, list_price)),
              RMul(selling_costs_pct, arv)), RMul(misc_buffer_pct, arv))

\* C20: with a rehab budget configured, each profit is its ARV variant
\* (arv * (1 - moe_conservative), arv, arv * (1 - moe_optimistic)) minus
\* total_costs = list_price + rehab_budget + closing_costs_pct * list_price
\* + selling_costs_pct * arv + misc_buffer_pct * arv, to 2 places.
C20_ProfitFormulas ==
    (IsArvCall(last) /\ IsReturned(last) /\ last.args[3] # PyNone) =>
        LET arv == Row(last).arv_estimate
            total_costs == StatedTotalCosts(ListPrice(last), last.args[3].r, arv)
        IN  /\ Row(last).profit_conservative =
                   Num(round(RSub(RMul(arv, RSub(ROne, moe_pct_conservative)),
                                  total_costs), 2))
            /\ Row(last).profit_median = Num(round(RSub(arv, total_costs), 2))
            /\ Row(last).profit_optimistic =
                   Num(round(RSub(RMul(arv, RSub(ROne, moe_pct_optimistic)),
                                  total_costs), 2))

\* C20 witness: an ARV of 110000 on a list price of 100000 with a rehab
\* budget of 20000 gave profits of -32800, -21800 and -25100.
C20_Witness ==
    /\ IsArvCall(last) /\ IsReturned(last)
    /\ Row(last).arv_estimate = <<110000, 1>>
    /\ ListPrice(last) = <<100000, 1>>
    /\ last.args[3] = Whole(20000)
    /\ Row(last).profit_conservative = Whole(-32800)
    /\ Row(last).profit_median = Whole(-21800)
    /\ Row(last).profit_optimistic = Whole(-25100)

IsIqrCall(l) == l.op = "iqr"

\* C21: iqr returns exactly 0 for every list of fewer than 4 samples, and for
\* the list 1, 2, ..., 8 it returns 4.5.
C21_IqrAsStated ==
    IsIqrCall(last) =>
        /\ Len(last.args[1]) < 4 => Row(last) = RZero
        /\ last.args[1] = [i \in 1..8 |-> <<i, 1>>] => Row(last) = <<9, 2>>

----------------------------------------------------------------------------
(* Properties of the API client and the cache together *)

\* The lookups of a call that hit
HitsOf(l) == {i \in EventsOfKind(l, "lookup") : l.events[i][4]}
\* The payloads the raw table holds under the (endpoint, key) of a lookup
CachedUnder(table, ev) ==
    {json_loads(r.payload_json) : r \in RowsOf(table, ev[2], ev[3])}

\* What every lookup that hits is followed by, whatever the call returns:
\* no request upstream, no further lookup, no write; the counters and the
\* entry that was hit stay as they were.
HitSpendsNothing ==
    \A i \in HitsOf(last') :
        /\ \A j \in DOMAIN last'.events :
               j > i => last'.events[j][1] \notin {"lookup", "upstream", "store"}
        /\ \A j \in EventsOfKind(last', "store") :
               <<last'.events[j][2], last'.events[j][3]>>
                   # <<last'.events[i][2], last'.events[i][3]>>
        /\ RowsOf(raw', last'.events[i][2], last'.events[i][3])
               = RowsOf(raw, last'.events[i][2], last'.events[i][3])
        /\ rate_limits' = rate_limits
        /\ i = 1 => raw' = raw

C25_OnlyValidPayloadsStored ==
    IsClientCall(last) =>
        /\ \A j \in EventsOfKind(last, "store") : model_validate(last.events[j][4])
        /\ HitsOf(last) # {} => last.ret # Raised("DataValidationError")

\* The events of a call that concern the fallback's endpoint
FallbackEvents(l, kind) ==
    {i \in EventsOfKind(l, kind) : l.events[i][2] = "propertyExtendedSearch_sold"}

\* C26: in the fallback path of get_property_comps the cache write uses the
\* (endpoint, key) of the fallback's lookup, the adopted extended window
\* included, so the next fallback lookup finds the entry.
C26_FallbackWritesUnderLookupKey ==
    (IsClientCall(last) /\ last.op = "get_property_comps") =>
        \A i \in FallbackEvents(last, "lookup"), j \in FallbackEvents(last, "store") :
            last.events[j][3] = last.events[i][3]

\* C27: clear_all_cache, clear_api_cache and clear_llm_cache leave every
\* per-day counter unchanged, and so do set_cached and get_cached.
C27_ClearsKeepQuota ==
    [][last'.op \in {"clear_all_cache", "clear_api_cache", "clear_llm_cache",
                     "set_cached", "get_cached"} =>
          rate_limits' = rate_limits]_vars

\* C27 witness: after calls were counted against the day's quota,
\* clear_all_cache has emptied the raw table and the day's count is still
\* there.
C27_Witness ==
    /\ last.op = "clear_all_cache"
    /\ raw = {}
    /\ CurrentCount(rate_limits, Today) >= 2
    /\ CurrentCount(rate_limits, Today) = granted[Today]

----------------------------------------------------------------------------
(* Properties of the batch pipeline *)

\* What the run did last was a search or a property that raised
DidRaise(r) ==
    \/ r.did # <<>> /\ r.did[1] = "search" /\ ~r.did[4].ok
    \/ r.did # <<>> /\ r.did[1] = "process" /\ r.did[3] \in ProcessErrors
\* The error it raised
RaisedBy(r) == IF r.did[1] = "search" THEN r.did[4].exc ELSE r.did[3]

\* C23: once a search or the processing of a property raises, the run ends
\* with that error: nothing is fetched, valued or written after it, and the
\* rows written before it stay.
C23_FailFast ==
    [][/\ (run' # run /\ DidRaise(run')) =>
              /\ run'.pc = "failed"
              /\ run'.error = Some(RaisedBy(run'))
              /\ run'.rows = run.rows
       /\ run.pc = "failed" => run' = run]_vars

\* C23 witness: in the first geo a row was written for the first property of
\* a page, the second property raised NoCompsError, and the run has ended
\* with that error and that one row.
C23_Witness ==
    /\ run.pc = "failed"
    /\ run.geo = 1
    /\ run.error = Some("NoCompsError")
    /\ run.did = <<"process", <<1, 1, 2>>, "NoCompsError">>
    /\ run.rows = <<<<1, 1, 1>>>>

----------------------------------------------------------------------------
(* Properties of concurrent callers of get_property_details *)

DetailsRows == RowsOf(raw, DetailsEndpoint, cache_key_from_params(DetailsParams))
\* The payloads the callers wrote with their latest writes
StoredPayloads == {fetchers[p].stored[1] : p \in {q \in Procs : fetchers[q].stored # None}}

\* C24: with two callers running lookup, request and write for the same
\* (endpoint, key) concurrently, the cache holds at most one entry for the
\* key at every point, and once a caller has written, the entry is there and
\* is exactly the payload (and instant) of the later write, which is the
\* payload one of the callers wrote.
C24_ConcurrentWritersLastWins ==
    LET w == written[DetailsEndpoint, cache_key_from_params(DetailsParams)]
    IN  /\ Cardinality(DetailsRows) <= 1
        /\ StoredPayloads = {} => DetailsRows = {}
        /\ StoredPayloads # {} =>
               /\ w # None
               /\ w[1].payload \in StoredPayloads
               /\ \E r \in DetailsRows : /\ json_loads(r.payload_json) = w[1].payload
                                         /\ r.ts = w[1].ts

\* C24 witness: at the epoch both callers missed in their first call, both
\* asked upstream and got different documents, both wrote; the cache holds
\* one entry, the document of the later writer.
C24_Witness ==
    /\ now = 0
    /\ \A p \in Procs : fetchers[p].pc = "idle" /\ fetchers[p].calls = 1
    /\ fetchers["c1"].stored = Some(<<TRUE>>)
    /\ fetchers["c2"].stored = Some(<<TRUE, TRUE>>)
    /\ Cardinality(DetailsRows) = 1
    /\ \E r \in DetailsRows : json_loads(r.payload_json) = <<TRUE, TRUE>>

====
